---- MODULE Spec2Model ----
(***************************************************************************)
(* Admission webhook of the Deployment integration                         *)
(* (pkg/controller/jobs/deployment/deployment_webhook.go).                 *)
(*                                                                         *)
(* The module models the three handlers Default, ValidateCreate and        *)
(* ValidateUpdate (and the trivial ValidateDelete) as operators, and two   *)
(* ways of driving them:                                                   *)
(*   mode = "direct"   : one handler is invoked once on arbitrary          *)
(*                       arguments (Default may be invoked a second time   *)
(*                       on its own result);                               *)
(*   mode = "dispatch" : the admission dispatcher registered by            *)
(*                       SetupWebhook runs Default and then the matching   *)
(*                       validator for every create/update/delete of one   *)
(*                       Deployment and persists the object iff the        *)
(*                       validator returned a nil error.                   *)
(***************************************************************************)
EXTENDS Integers, Sequences, FiniteSets, TLC

(***************************************************************************)
(* Bounds and value domains                                                *)
(***************************************************************************)
MaxReady == 2

QueueLabel == "kueue.x-k8s.io/queue-name"
DefaultLocalQueueName == "default"
OtherLabel == "app"
Absent == "<absent>"

LabelKeys == {QueueLabel, OtherLabel}

\* Values a label under the queue-name key may carry in an incoming object.
QueueValues == {"", "team-a", DefaultLocalQueueName, "Invalid Name!"}
OtherValues == {"web"}

\* Queue names the format policy rejects.
InvalidNames == {"Invalid Name!"}

(***************************************************************************)
(* Go maps of labels.  isNil distinguishes a nil map from an empty one;    *)
(* kv[k] = Absent means the key is not in the map.                         *)
(***************************************************************************)
NilMap == [isNil |-> TRUE, kv |-> [k \in LabelKeys |-> Absent]]
EmptyMap == [isNil |-> FALSE, kv |-> [k \in LabelKeys |-> Absent]]

LabelMaps ==
    {NilMap} \cup
    { [isNil |-> FALSE, kv |-> f] :
        f \in { g \in [LabelKeys -> QueueValues \cup OtherValues \cup {Absent}] :
                  /\ g[QueueLabel] \in QueueValues \cup {Absent}
                  /\ g[OtherLabel] \in OtherValues \cup {Absent} } }

\* m[k] on a Go map: the zero value "" when the key is missing or m is nil.
GetLabel(m, k) == IF m.kv[k] = Absent THEN "" ELSE m.kv[k]

HasLabel(m, k) == m.kv[k] # Absent

\* m[k] = v on a non-nil Go map.
SetLabel(m, k, v) == [isNil |-> FALSE, kv |-> [m.kv EXCEPT ![k] = v]]

(***************************************************************************)
(* appsv1.Deployment, reduced to the fields the webhook reads or writes:   *)
(* metadata.labels, spec.template.labels, status.readyReplicas.            *)
(***************************************************************************)
Deployments == [labels : LabelMaps, tmpl : LabelMaps, ready : 0..MaxReady]

ZeroDeployment == [labels |-> NilMap, tmpl |-> NilMap, ready |-> 0]

\* Objects submitted through the dispatcher (a subset of Deployments).
DispatchTemplates == {NilMap, SetLabel(EmptyMap, QueueLabel, "team-a")}
DispatchObjects ==
    { d \in Deployments : /\ d.labels.kv[OtherLabel] = Absent
                          /\ d.tmpl \in DispatchTemplates }

(***************************************************************************)
(* Collaborators from jobframework and apimachinery                        *)
(***************************************************************************)
labelsPath == <<"metadata", "labels">>
queueNameLabelPath == Append(labelsPath, QueueLabel)

FormatDetail == "invalid queue name"
FieldImmutableErrorMsg == "field is immutable"

\* jobframework.QueueNameForObject: the value of the queue-name label.
QueueNameForObject(obj) == GetLabel(obj.labels, QueueLabel)

\* The format policy on queue names; the empty name is compliant.
FormatValid(q) == q \notin InvalidNames

\* jobframework.ValidateQueueName: field errors of the format policy.
ValidateQueueName(obj) ==
    IF FormatValid(QueueNameForObject(obj))
    THEN << >>
    ELSE << [field |-> queueNameLabelPath, detail |-> FormatDetail] >>

\* apivalidation.ValidateImmutableField: one field error iff the values differ.
ValidateImmutableField(a, b, fldPath) ==
    IF a # b
    THEN << [field |-> fldPath, detail |-> FieldImmutableErrorMsg] >>
    ELSE << >>

\* field.ErrorList.ToAggregate: nil for an empty list, else all errors combined.
NilError == [isNil |-> TRUE, errs |-> << >>]
ToAggregate(list) == IF list = << >> THEN NilError ELSE [isNil |-> FALSE, errs |-> list]

\* admission.Warnings(nil)
NilWarnings == << >>

\* jobframework.ApplyDefaultLocalQueue: assign the default queue name when the
\* object has no queue name and the default local queue exists.
ApplyDefaultLocalQueue(obj, defaultQueueExist) ==
    IF defaultQueueExist /\ QueueNameForObject(obj) = ""
    THEN [obj EXCEPT !.labels =
            SetLabel(IF obj.labels.isNil THEN EmptyMap ELSE obj.labels,
                     QueueLabel, DefaultLocalQueueName)]
    ELSE obj

(***************************************************************************)
(* Webhook.Default                                                         *)
(***************************************************************************)
\* Variant: the template label is only added, never overwritten.
DefaultNoOverwrite(obj, defaultQueueExist) ==
    LET d == ApplyDefaultLocalQueue(obj, defaultQueueExist)
        queueName == QueueNameForObject(d)
    IN  IF queueName # "" /\ ~HasLabel(d.tmpl, QueueLabel)
        THEN [obj |-> [d EXCEPT !.tmpl =
                         SetLabel(IF d.tmpl.isNil THEN EmptyMap ELSE d.tmpl,
                                  QueueLabel, queueName)],
              err |-> NilError]
        ELSE [obj |-> d, err |-> NilError]

\* Variant: the queue name is read before the default queue is applied.
DefaultStaleRead(obj, defaultQueueExist) ==
    LET queueName == QueueNameForObject(obj)
        d == ApplyDefaultLocalQueue(obj, defaultQueueExist)
    IN  IF queueName # ""
        THEN [obj |-> [d EXCEPT !.tmpl =
                         SetLabel(IF d.tmpl.isNil THEN EmptyMap ELSE d.tmpl,
                                  QueueLabel, queueName)],
              err |-> NilError]
        ELSE [obj |-> d, err |-> NilError]

\* Variant: the template label map is allocated before the queue name is tested.
DefaultEagerAlloc(obj, defaultQueueExist) ==
    LET d == ApplyDefaultLocalQueue(obj, defaultQueueExist)
        queueName == QueueNameForObject(d)
        t == IF d.tmpl.isNil THEN EmptyMap ELSE d.tmpl
    IN  IF queueName # ""
        THEN [obj |-> [d EXCEPT !.tmpl = SetLabel(t, QueueLabel, queueName)],
              err |-> NilError]
        ELSE [obj |-> [d EXCEPT !.tmpl = t], err |-> NilError]

Default(obj, defaultQueueExist) ==
    LET d == ApplyDefaultLocalQueue(obj, defaultQueueExist)
        queueName == QueueNameForObject(d)
    IN  IF queueName # ""
        THEN [obj |-> [d EXCEPT !.tmpl =
                         SetLabel(IF d.tmpl.isNil THEN EmptyMap ELSE d.tmpl,
                                  QueueLabel, queueName)],
              err |-> NilError]
        ELSE [obj |-> d, err |-> NilError]

(***************************************************************************)
(* Webhook.ValidateCreate                                                  *)
(***************************************************************************)
\* Variant: a Deployment without a queue name is rejected as well.
ValidateCreateRequireQueue(obj) ==
    LET allErrs == ValidateQueueName(obj) \o
                   (IF QueueNameForObject(obj) = ""
                    THEN << [field |-> queueNameLabelPath, detail |-> "required"] >>
                    ELSE << >>)
    IN  [warnings |-> NilWarnings, err |-> ToAggregate(allErrs)]

ValidateCreate(obj) ==
    LET allErrs == ValidateQueueName(obj)
    IN  [warnings |-> NilWarnings, err |-> ToAggregate(allErrs)]

(***************************************************************************)
(* Webhook.ValidateUpdate                                                  *)
(***************************************************************************)
\* Variant: the guard lacks the ReadyReplicas disjunct.
ValidateUpdateNoReadyGuard(old, new) ==
    LET oldQueueName == QueueNameForObject(old)
        newQueueName == QueueNameForObject(new)
        fmtErrs == ValidateQueueName(new)
        allErrs == IF newQueueName = ""
                   THEN fmtErrs \o ValidateImmutableField(oldQueueName, newQueueName,
                                                          queueNameLabelPath)
                   ELSE fmtErrs
    IN  [warnings |-> NilWarnings, err |-> ToAggregate(allErrs)]

\* Variant: the guard lacks the empty-queue-name disjunct.
ValidateUpdateNoClearGuard(old, new) ==
    LET oldQueueName == QueueNameForObject(old)
        newQueueName == QueueNameForObject(new)
        fmtErrs == ValidateQueueName(new)
        allErrs == IF old.ready > 0
                   THEN fmtErrs \o ValidateImmutableField(oldQueueName, newQueueName,
                                                          queueNameLabelPath)
                   ELSE fmtErrs
    IN  [warnings |-> NilWarnings, err |-> ToAggregate(allErrs)]

\* Variant: the immutability check is unconditional.
ValidateUpdateAlwaysImmutable(old, new) ==
    LET oldQueueName == QueueNameForObject(old)
        newQueueName == QueueNameForObject(new)
        fmtErrs == ValidateQueueName(new)
        allErrs == fmtErrs \o ValidateImmutableField(oldQueueName, newQueueName,
                                                     queueNameLabelPath)
    IN  [warnings |-> NilWarnings, err |-> ToAggregate(allErrs)]

\* Variant: the guard tests the old queue name instead of the new one.
ValidateUpdateGuardOnOld(old, new) ==
    LET oldQueueName == QueueNameForObject(old)
        newQueueName == QueueNameForObject(new)
        fmtErrs == ValidateQueueName(new)
        allErrs == IF old.ready > 0 \/ oldQueueName = ""
                   THEN fmtErrs \o ValidateImmutableField(oldQueueName, newQueueName,
                                                          queueNameLabelPath)
                   ELSE fmtErrs
    IN  [warnings |-> NilWarnings, err |-> ToAggregate(allErrs)]

\* Variant: the guard is a conjunction.
ValidateUpdateAndGuard(old, new) ==
    LET oldQueueName == QueueNameForObject(old)
        newQueueName == QueueNameForObject(new)
        fmtErrs == ValidateQueueName(new)
        allErrs == IF old.ready > 0 /\ newQueueName = ""
                   THEN fmtErrs \o ValidateImmutableField(oldQueueName, newQueueName,
                                                          queueNameLabelPath)
                   ELSE fmtErrs
    IN  [warnings |-> NilWarnings, err |-> ToAggregate(allErrs)]

\* Variant: return as soon as the format check reports an error.
ValidateUpdateFailFast(old, new) ==
    LET oldQueueName == QueueNameForObject(old)
        newQueueName == QueueNameForObject(new)
        fmtErrs == ValidateQueueName(new)
        allErrs == IF fmtErrs # << >>
                   THEN fmtErrs
                   ELSE IF old.ready > 0 \/ newQueueName = ""
                        THEN fmtErrs \o ValidateImmutableField(oldQueueName, newQueueName,
                                                               queueNameLabelPath)
                        ELSE fmtErrs
    IN  [warnings |-> NilWarnings, err |-> ToAggregate(allErrs)]

ValidateUpdate(old, new) ==
    LET oldQueueName == QueueNameForObject(old)
        newQueueName == QueueNameForObject(new)
        fmtErrs == ValidateQueueName(new)
        allErrs == IF old.ready > 0 \/ newQueueName = ""
                   THEN fmtErrs \o ValidateImmutableField(oldQueueName, newQueueName,
                                                          queueNameLabelPath)
                   ELSE fmtErrs
    IN  [warnings |-> NilWarnings, err |-> ToAggregate(allErrs)]

(***************************************************************************)
(* Webhook.ValidateDelete                                                  *)
(***************************************************************************)
ValidateDelete(obj) == [warnings |-> NilWarnings, err |-> NilError]

(***************************************************************************)
(* State                                                                   *)
(*   mode   : "direct" or "dispatch" (see the module header)               *)
(*   stored : the persisted Deployment, if any                             *)
(*   ev     : the record of the last handler invocation                    *)
(***************************************************************************)
VARIABLES mode, stored, ev

vars == <<mode, stored, ev>>

NoObject == [present |-> FALSE, obj |-> ZeroDeployment]

NoEvent ==
    [op |-> "none", calls |-> 0, exists |-> FALSE,
     old |-> ZeroDeployment, new |-> ZeroDeployment,
     prev |-> ZeroDeployment, out |-> ZeroDeployment,
     warnings |-> NilWarnings, derr |-> NilError, err |-> NilError,
     admitted |-> FALSE]

Init ==
    /\ mode \in {"direct", "dispatch"}
    /\ stored = NoObject
    /\ ev = NoEvent

(***************************************************************************)
(* Direct invocations of the handlers on arbitrary arguments               *)
(***************************************************************************)
CallDefault ==
    /\ mode = "direct" /\ ev.op = "none"
    /\ \E obj \in Deployments, exists \in BOOLEAN :
         LET r == Default(obj, exists)
         IN  ev' = [NoEvent EXCEPT !.op = "Default", !.calls = 1, !.exists = exists,
                                   !.new = obj, !.prev = obj, !.out = r.obj,
                                   !.derr = r.err]
    /\ UNCHANGED <<mode, stored>>

\* Default applied to the result of the previous Default, same oracle answer.
CallDefaultAgain ==
    /\ mode = "direct" /\ ev.op = "Default" /\ ev.calls = 1
    /\ LET r == Default(ev.out, ev.exists)
       IN  ev' = [ev EXCEPT !.calls = 2, !.prev = ev.out, !.out = r.obj,
                            !.derr = IF ev.derr.isNil THEN r.err ELSE ev.derr]
    /\ UNCHANGED <<mode, stored>>

CallValidateCreate ==
    /\ mode = "direct" /\ ev.op = "none"
    /\ \E obj \in Deployments :
         LET r == ValidateCreate(obj)
         IN  ev' = [NoEvent EXCEPT !.op = "ValidateCreate", !.calls = 1,
                                   !.new = obj, !.out = obj,
                                   !.warnings = r.warnings, !.err = r.err,
                                   !.admitted = r.err.isNil]
    /\ UNCHANGED <<mode, stored>>

CallValidateUpdate ==
    /\ mode = "direct" /\ ev.op = "none"
    /\ \E old \in Deployments, new \in Deployments :
         LET r == ValidateUpdate(old, new)
         IN  ev' = [NoEvent EXCEPT !.op = "ValidateUpdate", !.calls = 1,
                                   !.old = old, !.new = new, !.out = new,
                                   !.warnings = r.warnings, !.err = r.err,
                                   !.admitted = r.err.isNil]
    /\ UNCHANGED <<mode, stored>>

CallValidateDelete ==
    /\ mode = "direct" /\ ev.op = "none"
    /\ \E obj \in Deployments :
         LET r == ValidateDelete(obj)
         IN  ev' = [NoEvent EXCEPT !.op = "ValidateDelete", !.calls = 1,
                                   !.old = obj,
                                   !.warnings = r.warnings, !.err = r.err,
                                   !.admitted = r.err.isNil]
    /\ UNCHANGED <<mode, stored>>

(***************************************************************************)
(* The admission dispatcher set up by SetupWebhook: the mutation handler   *)
(* (Default) runs first, then the validator; the object is persisted iff   *)
(* the validator returns a nil error.                                      *)
(***************************************************************************)
AdmitCreate ==
    /\ mode = "dispatch" /\ ~stored.present
    /\ \E obj \in DispatchObjects, exists \in BOOLEAN :
         LET d == Default(obj, exists)
             r == ValidateCreate(d.obj)
             ok == d.err.isNil /\ r.err.isNil
         IN  /\ ev' = [NoEvent EXCEPT !.op = "Create", !.calls = 1, !.exists = exists,
                                      !.new = obj, !.prev = obj, !.out = d.obj,
                                      !.warnings = r.warnings, !.derr = d.err,
                                      !.err = r.err, !.admitted = ok]
             /\ stored' = IF ok THEN [present |-> TRUE, obj |-> d.obj] ELSE stored
    /\ UNCHANGED mode

AdmitUpdate ==
    /\ mode = "dispatch" /\ stored.present
    /\ \E obj \in DispatchObjects, exists \in BOOLEAN :
         LET d == Default(obj, exists)
             r == ValidateUpdate(stored.obj, d.obj)
             ok == d.err.isNil /\ r.err.isNil
         IN  /\ ev' = [NoEvent EXCEPT !.op = "Update", !.calls = 1, !.exists = exists,
                                      !.old = stored.obj,
                                      !.new = obj, !.prev = obj, !.out = d.obj,
                                      !.warnings = r.warnings, !.derr = d.err,
                                      !.err = r.err, !.admitted = ok]
             /\ stored' = IF ok THEN [present |-> TRUE, obj |-> d.obj] ELSE stored
    /\ UNCHANGED mode

AdmitDelete ==
    /\ mode = "dispatch" /\ stored.present
    /\ LET r == ValidateDelete(stored.obj)
       IN  /\ ev' = [NoEvent EXCEPT !.op = "Delete", !.calls = 1,
                                    !.old = stored.obj,
                                    !.warnings = r.warnings, !.err = r.err,
                                    !.admitted = r.err.isNil]
           /\ stored' = IF r.err.isNil THEN NoObject ELSE stored
    /\ UNCHANGED mode

Next ==
    \/ CallDefault
    \/ CallDefaultAgain
    \/ CallValidateCreate
    \/ CallValidateUpdate
    \/ CallValidateDelete
    \/ AdmitCreate
    \/ AdmitUpdate
    \/ AdmitDelete

Spec == Init /\ [][Next]_vars

TypeOK ==
    /\ mode \in {"direct", "dispatch"}
    /\ stored.present \in BOOLEAN
    /\ stored.obj \in Deployments
    /\ ev.old \in Deployments /\ ev.new \in Deployments /\ ev.out \in Deployments

(***************************************************************************)
(* Vocabulary of the properties                                            *)
(***************************************************************************)
\* ev records a run of ValidateUpdate(ev.old, ev.out).
IsUpdateCall == ev.op \in {"ValidateUpdate", "Update"}

\* ev records a run of ValidateCreate(ev.out).
IsCreateCall == ev.op \in {"ValidateCreate", "Create"}

\* ev records a run of Default on ev.prev with result ev.out.
IsDefaultCall == ev.op \in {"Default", "Create", "Update"}

OldQ == QueueNameForObject(ev.old)
NewQ == QueueNameForObject(ev.out)

HasFormatError ==
    \E i \in 1..Len(ev.err.errs) :
        ev.err.errs[i] = [field |-> queueNameLabelPath, detail |-> FormatDetail]

HasImmutableError ==
    \E i \in 1..Len(ev.err.errs) :
        ev.err.errs[i] = [field |-> queueNameLabelPath, detail |-> FieldImmutableErrorMsg]

ImmutableGuard == ev.old.ready > 0 \/ NewQ = ""

(***************************************************************************)
(* C1 -- Update freeze when ready: every ValidateUpdate(old, new) with     *)
(* old.ReadyReplicas > 0 and a new queue name different from the old one   *)
(* returns a non-nil error, whatever the format of the new name; and an    *)
(* update admitted by the dispatcher whose old snapshot has                *)
(* ReadyReplicas > 0 leaves the stored queue name equal to the old one.    *)
(***************************************************************************)
C1_FreezeWhenReady ==
    /\ (IsUpdateCall /\ ev.old.ready > 0 /\ NewQ # OldQ) => ~ev.err.isNil
    /\ (ev.op = "Update" /\ ev.admitted /\ ev.old.ready > 0)
          => (stored.present /\ QueueNameForObject(stored.obj) = OldQ)

C1_Witness ==
    /\ ev.op = "ValidateUpdate"
    /\ ev.old.ready > 0
    /\ OldQ # "" /\ NewQ # "" /\ NewQ # OldQ
    /\ FormatValid(NewQ)
    /\ ~ev.err.isNil

(***************************************************************************)
(* C2 -- Update freeze on clear: every ValidateUpdate(old, new) with an    *)
(* empty new queue name and a non-empty old queue name returns a non-nil   *)
(* error, for every old.ReadyReplicas including 0.                         *)
(***************************************************************************)
C2_FreezeOnClear ==
    (IsUpdateCall /\ NewQ = "" /\ OldQ # "") => ~ev.err.isNil

C2_Witness ==
    /\ ev.op = "ValidateUpdate"
    /\ ev.old.ready = 0
    /\ OldQ = "team-a"
    /\ ~HasLabel(ev.out.labels, QueueLabel)
    /\ ~ev.err.isNil

(***************************************************************************)
(* C3 -- Update freedom when unready and non-clearing: every               *)
(* ValidateUpdate(old, new) with old.ReadyReplicas = 0 and a non-empty,    *)
(* format-valid new queue name returns a nil error, also when the queue    *)
(* name changes (old name empty or not) and whatever new.ReadyReplicas is. *)
(***************************************************************************)
C3_FreedomWhenUnready ==
    (IsUpdateCall /\ ev.old.ready = 0 /\ NewQ # "" /\ FormatValid(NewQ))
        => ev.err.isNil

C3_Witness ==
    /\ ev.op = "ValidateUpdate"
    /\ ev.old.ready = 0 /\ ev.out.ready > 0
    /\ OldQ = "team-a" /\ NewQ = DefaultLocalQueueName
    /\ ev.err.isNil

(***************************************************************************)
(* C4 -- Create format enforcement: ValidateCreate returns a non-nil error *)
(* iff the queue name violates the format policy (the empty name is        *)
(* compliant), and always returns nil warnings.                            *)
(***************************************************************************)
C4_CreateFormat ==
    IsCreateCall =>
        /\ (~ev.err.isNil) <=> ~FormatValid(NewQ)
        /\ ev.warnings = NilWarnings

C4_Witness ==
    /\ ev.op = "ValidateCreate"
    /\ ~HasLabel(ev.out.labels, QueueLabel)
    /\ ev.err.isNil

(***************************************************************************)
(* C5 -- Default propagation: after Default, a non-empty top-level queue   *)
(* name is carried by a non-nil template label map under the queue-name    *)
(* key (a different prior template value is overwritten); a workload       *)
(* without queue name and with an existing default queue ends with the     *)
(* default queue name in both label maps.                                  *)
(***************************************************************************)
C5_DefaultPropagation ==
    IsDefaultCall =>
        /\ NewQ # "" =>
              /\ ~ev.out.tmpl.isNil
              /\ ev.out.tmpl.kv[QueueLabel] = NewQ
        /\ (QueueNameForObject(ev.prev) = "" /\ ev.exists) =>
              /\ ev.out.labels.kv[QueueLabel] = DefaultLocalQueueName
              /\ ev.out.tmpl.kv[QueueLabel] = DefaultLocalQueueName

C5_Witness ==
    /\ ev.op = "Default" /\ ev.calls = 1
    /\ ev.exists
    /\ ~HasLabel(ev.prev.labels, QueueLabel)
    /\ ev.prev.tmpl.kv[QueueLabel] = "team-a"
    /\ ev.out.labels.kv[QueueLabel] = DefaultLocalQueueName
    /\ ev.out.tmpl.kv[QueueLabel] = DefaultLocalQueueName

(***************************************************************************)
(* C6 -- Defaulting idempotence: Default applied to the result of Default  *)
(* (same default-queue-exists answer) returns the object unchanged, and    *)
(* neither call returns an error.                                          *)
(***************************************************************************)
C6_DefaultIdempotent ==
    ev.op = "Default" =>
        /\ ev.derr.isNil
        /\ ev.calls = 2 =>
              /\ ev.out.labels = ev.prev.labels
              /\ ev.out.tmpl = ev.prev.tmpl

C6_Witness ==
    /\ ev.op = "Default" /\ ev.calls = 2
    /\ ev.exists
    /\ QueueNameForObject(ev.new) = ""
    /\ ev.new.tmpl.isNil
    /\ ev.out.labels # ev.new.labels
    /\ ev.out.tmpl # ev.new.tmpl

(***************************************************************************)
(* C7 -- Binding is never cleared: when the stored object has a non-empty  *)
(* queue name, no update processed by the dispatcher leaves the stored     *)
(* object with an empty queue name.                                        *)
(***************************************************************************)
C7_NeverCleared ==
    [][(stored.present /\ QueueNameForObject(stored.obj) # "" /\ ev'.op = "Update")
          => (stored'.present /\ QueueNameForObject(stored'.obj) # "")]_vars

C7_Witness ==
    /\ ev.op = "Update"
    /\ ev.old.ready = 0 /\ ~ev.exists
    /\ OldQ # "" /\ NewQ = ""
    /\ ~ev.admitted
    /\ stored.present /\ stored.obj = ev.old

(***************************************************************************)
(* C8 -- Immutability guard is exact: ValidateUpdate reports the           *)
(* immutability error on the queue-name label path iff                     *)
(* (old.ReadyReplicas > 0 or new queue name empty) and old # new queue     *)
(* name; the error is non-nil iff the format check fails or that condition *)
(* holds.                                                                  *)
(***************************************************************************)
C8_GuardExact ==
    IsUpdateCall =>
        /\ HasImmutableError <=> (ImmutableGuard /\ OldQ # NewQ)
        /\ (~ev.err.isNil) <=> (~FormatValid(NewQ) \/ (ImmutableGuard /\ OldQ # NewQ))

C8_Witness ==
    /\ ev.op = "ValidateUpdate"
    /\ ev.old.ready > 0
    /\ OldQ = "team-a" /\ NewQ = "team-a"
    /\ ev.err.isNil

(***************************************************************************)
(* C9 -- No fail-fast in ValidateUpdate: the format error is reported      *)
(* whenever the new name is invalid and the immutability error whenever    *)
(* the guard holds and the names differ, each regardless of the other;     *)
(* when both are violated the aggregate lists the format error before the  *)
(* immutability error; the aggregate is nil exactly when the list is       *)
(* empty.                                                                  *)
(***************************************************************************)
C9_NoFailFast ==
    IsUpdateCall =>
        /\ HasFormatError <=> ~FormatValid(NewQ)
        /\ (ImmutableGuard /\ OldQ # NewQ) => HasImmutableError
        /\ (~FormatValid(NewQ) /\ ev.old.ready > 0 /\ OldQ # NewQ) =>
              ev.err.errs =
                 << [field |-> queueNameLabelPath, detail |-> FormatDetail],
                    [field |-> queueNameLabelPath, detail |-> FieldImmutableErrorMsg] >>
        /\ ev.err.isNil <=> (ev.err.errs = << >>)

C9_Witness ==
    /\ ev.op = "ValidateUpdate"
    /\ ev.old.ready > 0
    /\ ~FormatValid(NewQ) /\ OldQ # NewQ
    /\ Len(ev.err.errs) = 2
    /\ ev.err.errs[1].detail = FormatDetail
    /\ ev.err.errs[2].detail = FieldImmutableErrorMsg

(***************************************************************************)
(* C10 -- Default frame: with no top-level queue name and no default       *)
(* queue, Default leaves both label maps unchanged (a nil template map     *)
(* stays nil, a stale template queue-name key stays); Default never        *)
(* changes a non-empty top-level queue-name label.                         *)
(***************************************************************************)
C10_DefaultFrame ==
    IsDefaultCall =>
        /\ (QueueNameForObject(ev.prev) = "" /\ ~ev.exists) =>
              /\ ev.out.labels = ev.prev.labels
              /\ ev.out.tmpl = ev.prev.tmpl
        /\ QueueNameForObject(ev.prev) # "" => ev.out.labels = ev.prev.labels

C10_Witness ==
    /\ ev.op = "Default" /\ ev.calls = 1
    /\ ~ev.exists
    /\ QueueNameForObject(ev.prev) = ""
    /\ ev.prev.tmpl.isNil
    /\ ev.out.tmpl.isNil
    /\ ev.out.labels = ev.prev.labels

====
